---- MODULE Spec2Model ----
(***************************************************************************)
(* Model of src/src/file/compress.rs (rs-exr): the compression dispatcher, *)
(* the Compression method table, the uncompressed codec and the zip codec. *)
(*                                                                         *)
(* Every operation of the file is a pure function of its arguments.  The   *)
(* state machine is a caller that invokes one public function at a time    *)
(* with arguments drawn from bounded sets and records how the call ends:   *)
(* Ok(value), Err(CompressionError) or a panic that unwinds the caller     *)
(* (unimplemented!() and .expect() on an Err).                             *)
(***************************************************************************)
EXTENDS Integers, Sequences, FiniteSets, TLC

VARIABLES
    pc,                 \* "idle" | "returned" | "aborted" (the call panicked)
    op,                 \* name of the function that was called
    method,             \* Compression argument
    block_kind,         \* BlockKind argument
    data,               \* CompressedData argument (Vec<u8>)
    uncompressed_size,  \* Option<usize>: <<>> is None, <<n>> is Some(n)
    channels,           \* &Channels argument: sequence of channel descriptions
    section,            \* UncompressedData (DataSection) argument
    block_size,         \* <<width, height>> of the block the caller is decoding
    outcome             \* [tag, val]: how the call ended

vars == <<pc, op, method, block_kind, data, uncompressed_size, channels,
          section, block_size, outcome>>

---------------------------------------------------------------------------
(* Bounds of the enumerated inputs *)

MaxChannels == 2    \* channels per channel list / per DataSection
MaxSamples  == 1    \* samples per channel buffer of a DataSection argument
MaxRawLen   == 4    \* length of the raw (non-zlib) byte buffers tried
MaxDim      == 4    \* block width and height range over 1..MaxDim
MaxSize     == 1    \* Some(n) hints tried for uncompressed_size: n <= MaxSize

---------------------------------------------------------------------------
(* Types of the file *)

\* pub enum Compression
Compression == {"None", "RLE", "ZIPS", "ZIP", "PIZ", "PXR24", "B44", "B44A"}

\* ::image::BlockKind, as matched in uncompressed::unpack
BlockKind == {"ScanLine", "Tile", "DeepScanLine", "DeepTile"}

\* ::file::attributes::PixelType, as matched in uncompressed::unpack
PixelType == {"U32", "F16", "F32"}

\* bytes per sample of a pixel type (read_u32_vec / read_f16_vec / read_f32_vec)
BytesPerSample(pixel_type) == IF pixel_type = "F16" THEN 2 ELSE 4

\* Result<T>: Ok(v) | Err(e); Panic(why) is the unwinding of a panic
Ok(v)      == [tag |-> "Ok",    val |-> v]
Err(e)     == [tag |-> "Err",   val |-> e]
Panic(why) == [tag |-> "Panic", val |-> why]
NoOutcome  == [tag |-> "None",  val |-> <<>>]

\* pub enum DataSection { ScanLine(..), Tile(..), DeepScanLine(..), DeepTile(..) }
DataSection(kind, per_channel_data) ==
    [kind |-> kind, per_channel_data |-> per_channel_data]

\* PixelData::U32 / F16 / F32 holding a boxed slice of samples
PixelData(pixel_type, samples) ==
    [pixel_type |-> pixel_type, samples |-> samples]

---------------------------------------------------------------------------
(* impl Compression *)

\* ZIPS grouped like ZIP
scan_lines_per_block_zips16(self) ==
    CASE self \in {"None", "RLE"}            -> 1
      [] self \in {"ZIP", "ZIPS", "PXR24"}   -> 16
      [] self \in {"PIZ", "B44", "B44A"}     -> 32

scan_lines_per_block(self) ==
    CASE self \in {"None", "RLE", "ZIPS"} -> 1
      [] self \in {"ZIP", "PXR24"}        -> 16
      [] self \in {"PIZ", "B44", "B44A"}  -> 32

\* ZIP left out of the deep-capable methods
supports_deep_data_no_zip(self) ==
    CASE self \in {"None", "RLE", "ZIPS"} -> TRUE
      [] OTHER                            -> FALSE

supports_deep_data(self) ==
    CASE self \in {"None", "RLE", "ZIPS", "ZIP"} -> TRUE
      [] OTHER                                   -> FALSE

---------------------------------------------------------------------------
(* pub mod uncompressed *)

\* the value of an unimplemented!() expression: evaluating it panics
Unimplemented == "unimplemented"

\* let size = unimplemented!("calculate size based on tile size / scan line,
\* taking care of edge cases, channel subsampling, and mip / rip map levels")
size(channel) == Unimplemented

\* little-endian value of a group of bytes
RECURSIVE FromLE(_)
FromLE(bytes) ==
    IF bytes = <<>> THEN 0 ELSE Head(bytes) + 256 * FromLE(Tail(bytes))

\* ::file::io::read_{u32,f16,f32}_vec(&mut slice, size, soft_max): reads `size`
\* samples from the front of the slice, Err when the slice is too short
read_vec(slice, count, pixel_type) ==
    LET w == BytesPerSample(pixel_type)
    IN  IF Len(slice) < count * w
        THEN Err("io")
        ELSE Ok([i \in 1..count |->
                    FromLE(SubSeq(slice, (i - 1) * w + 1, i * w))])

\* for channel in target_channels { .. }: each iteration reads from
\* `&mut data.as_slice()`, a fresh slice over the whole of `data`
RECURSIVE unpack_channels(_, _, _)
unpack_channels(bytes, target_channels, per_channel_data) ==
    IF target_channels = <<>>
    THEN Ok(per_channel_data)
    ELSE LET channel == Head(target_channels)
             count   == size(channel)
         IN  IF count = Unimplemented
             THEN Panic("unimplemented: calculate size")
             ELSE LET read == read_vec(bytes, count, channel.pixel_type)
                  IN  IF read.tag = "Err"
                      THEN Panic("expect: io err when reading from in-memory vec")
                      ELSE unpack_channels(
                               bytes, Tail(target_channels),
                               Append(per_channel_data,
                                      PixelData(channel.pixel_type, read.val)))

uncompressed_unpack(kind, bytes, target_channels) ==
    IF kind = "ScanLine"
    THEN LET r == unpack_channels(bytes, target_channels, <<>>)
         IN  IF r.tag = "Ok" THEN Ok(DataSection("ScanLine", r.val)) ELSE r
    ELSE Panic("unimplemented")

uncompressed_pack(d) == Panic("unimplemented")

---------------------------------------------------------------------------
(* pub mod zip *)

\* libflate::zlib::Decoder::new reads the two-byte zlib header (RFC 1950):
\* CM = 8, CINFO <= 7, (CMF * 256 + FLG) % 31 = 0, no preset dictionary
ZlibHeaderOk(bytes) ==
    /\ Len(bytes) >= 2
    /\ bytes[1] % 16 = 8
    /\ bytes[1] \div 16 <= 7
    /\ (bytes[1] * 256 + bytes[2]) % 31 = 0
    /\ (bytes[2] \div 32) % 2 = 0

AdlerBase == 65521

\* Adler-32 checksum as the pair <<a, b>>
RECURSIVE Adler32(_, _, _)
Adler32(bytes, a, b) ==
    IF bytes = <<>>
    THEN <<a, b>>
    ELSE LET a2 == (a + Head(bytes)) % AdlerBase
         IN  Adler32(Tail(bytes), a2, (b + a2) % AdlerBase)

\* the deflate blocks of a zlib body (RFC 1951).  Stored blocks (BTYPE = 00)
\* are decoded; BTYPE = 11 is reserved and rejected; the Huffman block types
\* do not occur in the byte strings enumerated below (StoredBlocksOnly).
RECURSIVE InflateBlocks(_, _)
InflateBlocks(body, out) ==
    IF body = <<>>
    THEN Err("unexpected eof")
    ELSE LET bfinal == body[1] % 2
             btype  == (body[1] \div 2) % 4
         IN  CASE btype = 3 -> Err("reserved block type")
               [] btype \in {1, 2} -> Err("huffman block: not modelled")
               [] btype = 0 ->
                    IF Len(body) < 5
                    THEN Err("unexpected eof")
                    ELSE LET len  == body[2] + 256 * body[3]
                             nlen == body[4] + 256 * body[5]
                         IN  IF len + nlen # 65535
                             THEN Err("len / nlen mismatch")
                             ELSE IF Len(body) < 5 + len
                             THEN Err("unexpected eof")
                             ELSE LET out2 == out \o SubSeq(body, 6, 5 + len)
                                      rest == SubSeq(body, 6 + len, Len(body))
                                  IN  IF bfinal = 1
                                      THEN Ok([out |-> out2, rest |-> rest])
                                      ELSE InflateBlocks(rest, out2)

\* decoder.read_to_end(&mut decompressed): inflate every block, then compare
\* the big-endian Adler-32 trailer; bytes after the trailer are not read
read_to_end(bytes) ==
    LET blocks == InflateBlocks(SubSeq(bytes, 3, Len(bytes)), <<>>)
    IN  IF blocks.tag = "Err"
        THEN blocks
        ELSE LET t   == blocks.val.rest
                 sum == Adler32(blocks.val.out, 1, 0)
             IN  IF Len(t) < 4
                 THEN Err("unexpected eof")
                 ELSE IF <<t[1] * 256 + t[2], t[3] * 256 + t[4]>>
                           # <<sum[2], sum[1]>>
                 THEN Err("adler32 mismatch")
                 ELSE Ok(blocks.val.out)

zip_decompress(bytes, size_hint) ==
    IF ~ZlibHeaderOk(bytes)
    THEN Panic("expect: Decoder::new")
    ELSE IF read_to_end(bytes).tag = "Err"
    THEN Panic("expect: read_to_end")
    ELSE Panic("unimplemented: sum up because we encoded the first derivative")

zip_compress(d) == Panic("unimplemented: encode the first derivative")

---------------------------------------------------------------------------
(* the dispatcher *)

compress(m, d) ==
    CASE m = "None" -> uncompressed_pack(d)
      [] m = "ZIP"  -> zip_compress(d)
      [] m = "ZIPS" -> zip_compress(d)
      [] OTHER      -> Panic("unimplemented")

decompress(m, kind, bytes, size_hint, target_channels) ==
    CASE m = "None" -> uncompressed_unpack(kind, bytes, target_channels)
      [] m = "ZIP"  -> zip_decompress(bytes, size_hint)
      [] m = "ZIPS" -> zip_decompress(bytes, size_hint)
      [] m = "RLE"  -> Panic("unimplemented")
      [] OTHER      -> Panic("unimplemented")

---------------------------------------------------------------------------
(* Arguments the caller tries *)

SeqsUpTo(S, n) == UNION {[1..k -> S] : k \in 0..n}

\* a channel of the channel list: pixel type and (x, y) subsampling
Channel == [pixel_type : PixelType, sampling : {<<1, 1>>, <<2, 2>>}]

ChannelLists == SeqsUpTo(Channel, MaxChannels)

SampleValues == {0, 1}

DataSections ==
    {DataSection(k, pcd) :
        k \in BlockKind,
        pcd \in SeqsUpTo({PixelData(t, smp) :
                            t \in PixelType,
                            smp \in SeqsUpTo(SampleValues, MaxSamples)},
                         MaxChannels)}

SizeHints == {<<>>} \cup {<<n>> : n \in 0..MaxSize}

BlockSizes == (1..MaxDim) \X (1..MaxDim)

\* bytes a corrupted stream byte is replaced by
ByteAlphabet == {0, 1, 120, 255}

\* bytes of the raw buffers: the two ends of the byte range
RawBytes == {0, 255}

\* zlib streams holding one final stored block: of no bytes, and of the byte 0
EmptyStream   == <<120, 1,  1, 0, 0, 255, 255,  0, 0, 0, 1>>
OneByteStream == <<120, 1,  1, 1, 0, 254, 255,  0,  0, 1, 0, 1>>

Prefixes(str) == {SubSeq(str, 1, n) : n \in 0..Len(str)}

\* str with one byte replaced: corrupted headers, lengths, checksums
Corruptions(str) ==
    {[str EXCEPT ![i] = b] : i \in 1..Len(str), b \in ByteAlphabet}

ZlibInputs ==
    {EmptyStream, OneByteStream, OneByteStream \o <<0>>}
        \cup Prefixes(OneByteStream) \cup Corruptions(OneByteStream)

RawInputs == SeqsUpTo(RawBytes, MaxRawLen)

DataInputs == ZlibInputs \cup RawInputs

---------------------------------------------------------------------------
(* The caller *)

NoSection == DataSection("ScanLine", <<>>)

Init ==
    /\ pc = "idle"
    /\ op = "none"
    /\ method = "None"
    /\ block_kind = "ScanLine"
    /\ data = <<>>
    /\ uncompressed_size = <<>>
    /\ channels = <<>>
    /\ section = NoSection
    /\ block_size = <<1, 1>>
    /\ outcome = NoOutcome

\* a call made by the idle caller ends: by returning, or by unwinding the caller
Ends(name, result) ==
    /\ op' = name
    /\ outcome' = result
    /\ pc' = IF result.tag = "Panic" THEN "aborted" ELSE "returned"

CallCompress ==
    /\ pc = "idle"
    /\ \E m \in Compression, d \in DataSections :
           /\ Ends("compress", compress(m, d))
           /\ method' = m
           /\ section' = d
           /\ block_kind' = d.kind
           /\ data' = <<>> /\ uncompressed_size' = <<>> /\ channels' = <<>>
           /\ block_size' = <<1, 1>>

CallDecompress ==
    /\ pc = "idle"
    /\ \E m \in Compression, k \in BlockKind, bytes \in DataInputs,
          hint \in SizeHints, ch \in ChannelLists :
           /\ Ends("decompress", decompress(m, k, bytes, hint, ch))
           /\ method' = m
           /\ block_kind' = k
           /\ data' = bytes
           /\ uncompressed_size' = hint
           /\ channels' = ch
           /\ section' = NoSection
           /\ block_size' = <<1, 1>>

CallScanLinesPerBlock ==
    /\ pc = "idle"
    /\ \E m \in Compression :
           /\ Ends("scan_lines_per_block", Ok(scan_lines_per_block(m)))
           /\ method' = m
           /\ UNCHANGED <<block_kind, data, uncompressed_size, channels,
                          section, block_size>>

CallSupportsDeepData ==
    /\ pc = "idle"
    /\ \E m \in Compression :
           /\ Ends("supports_deep_data", Ok(supports_deep_data(m)))
           /\ method' = m
           /\ UNCHANGED <<block_kind, data, uncompressed_size, channels,
                          section, block_size>>

CallUnpack ==
    /\ pc = "idle"
    /\ \E k \in BlockKind, bytes \in RawInputs, ch \in ChannelLists,
          bs \in BlockSizes :
           /\ Ends("unpack", uncompressed_unpack(k, bytes, ch))
           /\ block_kind' = k
           /\ data' = bytes
           /\ channels' = ch
           /\ block_size' = bs
           /\ method' = "None" /\ uncompressed_size' = <<>>
           /\ section' = NoSection

CallPack ==
    /\ pc = "idle"
    /\ \E d \in DataSections :
           /\ Ends("pack", uncompressed_pack(d))
           /\ section' = d
           /\ block_kind' = d.kind
           /\ method' = "None"
           /\ data' = <<>> /\ uncompressed_size' = <<>> /\ channels' = <<>>
           /\ block_size' = <<1, 1>>

CallZipDecompress ==
    /\ pc = "idle"
    /\ \E bytes \in DataInputs, hint \in SizeHints :
           /\ Ends("zip_decompress", zip_decompress(bytes, hint))
           /\ data' = bytes
           /\ uncompressed_size' = hint
           /\ method' = "ZIP" /\ block_kind' = "ScanLine" /\ channels' = <<>>
           /\ section' = NoSection
           /\ block_size' = <<1, 1>>

CallZipCompress ==
    /\ pc = "idle"
    /\ \E d \in DataSections :
           /\ Ends("zip_compress", zip_compress(d))
           /\ section' = d
           /\ block_kind' = d.kind
           /\ method' = "ZIP"
           /\ data' = <<>> /\ uncompressed_size' = <<>> /\ channels' = <<>>
           /\ block_size' = <<1, 1>>

\* the caller takes the returned value and is ready for the next call
Return ==
    /\ pc = "returned"
    /\ pc' = "idle"
    /\ op' = "none"
    /\ outcome' = NoOutcome
    /\ method' = "None"
    /\ block_kind' = "ScanLine"
    /\ data' = <<>>
    /\ uncompressed_size' = <<>>
    /\ channels' = <<>>
    /\ section' = NoSection
    /\ block_size' = <<1, 1>>

Next ==
    \/ CallCompress
    \/ CallDecompress
    \/ CallScanLinesPerBlock
    \/ CallSupportsDeepData
    \/ CallUnpack
    \/ CallPack
    \/ CallZipDecompress
    \/ CallZipCompress
    \/ Return

Spec == Init /\ [][Next]_vars

---------------------------------------------------------------------------
(* Quantities of the specification the properties are stated with *)

CeilDiv(a, b) == (a + b - 1) \div b

\* samples of a channel in a non-deep block of the given <<width, height>>
SampleCount(channel, bs) ==
    CeilDiv(bs[1], channel.sampling[1]) * CeilDiv(bs[2], channel.sampling[2])

\* bytes of a channel in the flat buffer
ChannelBytes(channel, bs) ==
    SampleCount(channel, bs) * BytesPerSample(channel.pixel_type)

\* bytes of the channels before channel k: where channel k starts
RECURSIVE OffsetOf(_, _, _)
OffsetOf(chs, k, bs) ==
    IF k = 1 THEN 0
    ELSE OffsetOf(chs, k - 1, bs) + ChannelBytes(chs[k - 1], bs)

\* bytes of the whole flat buffer
RequiredBytes(chs, bs) == OffsetOf(chs, Len(chs) + 1, bs)

\* out[i] = (in[i] - in[i-1]) mod 256, out[1] = in[1]
DeltaFilter(bytes) ==
    [i \in 1..Len(bytes) |->
        IF i = 1 THEN bytes[1] ELSE (bytes[i] - bytes[i - 1]) % 256]

\* byte[i] = (byte[i] + byte[i-1]) mod 256 in place, byte[1] unchanged
RECURSIVE PrefixSum(_)
PrefixSum(bytes) ==
    IF Len(bytes) <= 1 THEN bytes
    ELSE LET front == PrefixSum(SubSeq(bytes, 1, Len(bytes) - 1))
         IN  Append(front, (bytes[Len(bytes)] + front[Len(front)]) % 256)

Called(name) == op = name /\ pc # "idle"

\* every enumerated byte string is decoded by the stored-block inflater
StoredBlocksOnly ==
    LET blocks == InflateBlocks(SubSeq(data, 3, Len(data)), <<>>)
    IN  blocks.tag = "Err" => blocks.val # "huffman block: not modelled"

---------------------------------------------------------------------------
(* Properties *)

Lossless == {"None", "ZIP", "ZIPS"}

NotImplemented == {"RLE", "PIZ", "PXR24", "B44", "B44A"}

\* C1: for method in {None, ZIP, ZIPS} and every well-formed DataSection,
\* compress returns Ok, and decompress of the bytes it returned, with the
\* block kind and channel list of the section, returns Ok with a DataSection
\* equal to the one compressed (same channels, same order, same samples).
C1_RoundTrip ==
    (Called("compress") /\ method \in Lossless) =>
        /\ outcome.tag = "Ok"
        /\ LET chs == [k \in 1..Len(section.per_channel_data) |->
                         [pixel_type |->
                              section.per_channel_data[k].pixel_type,
                          sampling |-> <<1, 1>>]]
           IN  decompress(method, block_kind, outcome.val, <<>>, chs)
                   = Ok(section)

\* C2: for method in {RLE, PIZ, PXR24, B44, B44A} and every block kind, compress
\* and decompress both return the error Unsupported(method); neither panics.
C2_Unsupported ==
    ((Called("compress") \/ Called("decompress")) /\ method \in NotImplemented)
        => /\ outcome.tag = "Err"
           /\ outcome.val = <<"Unsupported", method>>

\* C3: for ZIP and ZIPS, decompress of bytes that are no valid zlib stream (bad
\* header, or failing to inflate) returns the error DecodeFailure: it neither
\* panics nor returns Ok.
C3_DecodeFailure ==
    ((Called("decompress") \/ Called("zip_decompress"))
        /\ method \in {"ZIP", "ZIPS"}
        /\ (~ZlibHeaderOk(data) \/ read_to_end(data).tag = "Err"))
        => /\ outcome.tag = "Err"
           /\ outcome.val = "DecodeFailure"

\* C4: decompress with method in {None, ZIP, ZIPS} and a present expected
\* uncompressed size that differs from the byte size derived from the block
\* geometry and the channel list returns the error SizeMismatch(expected,
\* actual); it never returns Ok.
C4_SizeMismatch ==
    (Called("decompress")
        /\ method \in Lossless
        /\ uncompressed_size # <<>>
        /\ uncompressed_size[1] # RequiredBytes(channels, block_size))
        => /\ outcome.tag = "Err"
           /\ outcome.val = <<"SizeMismatch", uncompressed_size[1],
                              RequiredBytes(channels, block_size)>>

\* C5: unpack of a non-deep block returns the error TruncatedInput, without
\* panicking, when the buffer has fewer bytes than the channels need, and
\* returns Ok when it has at least that many (surplus bytes are no error).
C5_TruncatedInput ==
    (Called("unpack") /\ block_kind \in {"ScanLine", "Tile"}) =>
        IF Len(data) < RequiredBytes(channels, block_size)
        THEN outcome.tag = "Err" /\ outcome.val = "TruncatedInput"
        ELSE outcome.tag = "Ok"

\* C6: scan_lines_per_block is total and returns None, RLE, ZIPS -> 1;
\* ZIP, PXR24 -> 16; PIZ, B44, B44A -> 32.
C6_ScanLinesPerBlock ==
    Called("scan_lines_per_block") =>
        /\ pc = "returned"
        /\ outcome.tag = "Ok"
        /\ method \in {"None", "RLE", "ZIPS"}  => outcome.val = 1
        /\ method \in {"ZIP", "PXR24"}         => outcome.val = 16
        /\ method \in {"PIZ", "B44", "B44A"}   => outcome.val = 32
        /\ outcome.val \in {1, 16, 32}

\* C6 witness: the table was queried for ZIPS and answered 1
C6_Witness ==
    /\ Called("scan_lines_per_block")
    /\ method = "ZIPS"
    /\ outcome = Ok(1)

\* C7: supports_deep_data returns true exactly for None, RLE, ZIPS and ZIP.
C7_SupportsDeepData ==
    Called("supports_deep_data") =>
        /\ pc = "returned"
        /\ outcome.tag = "Ok"
        /\ outcome.val = (method \in {"None", "RLE", "ZIPS", "ZIP"})

\* C7 witness: the table was queried for ZIP and answered true
C7_Witness ==
    /\ Called("supports_deep_data")
    /\ method = "ZIP"
    /\ outcome = Ok(TRUE)

\* C8: unpack of a scan-line block holding enough bytes returns the channels
\* in channel-list order, channel k decoded from the bytes that start at the
\* summed byte sizes of channels 1..k-1 (consecutive, non-overlapping ranges).
C8_ChannelRanges ==
    (Called("unpack")
        /\ block_kind = "ScanLine"
        /\ channels # <<>>
        /\ Len(data) >= RequiredBytes(channels, block_size))
        => /\ outcome.tag = "Ok"
           /\ Len(outcome.val.per_channel_data) = Len(channels)
           /\ \A k \in 1..Len(channels) :
                 outcome.val.per_channel_data[k] =
                     PixelData(
                         channels[k].pixel_type,
                         read_vec(
                             SubSeq(data,
                                    OffsetOf(channels, k, block_size) + 1,
                                    Len(data)),
                             SampleCount(channels[k], block_size),
                             channels[k].pixel_type).val)

\* C9: zip compress delta-filters the packed buffer and deflates it, and zip
\* decompress inflates and then prefix-sums the buffer before unpacking it;
\* the prefix sum of a delta-filtered byte sequence is the sequence itself.
C9_DeltaFilter ==
    /\ Called("zip_compress") =>
           /\ outcome.tag = "Ok"
           /\ ZlibHeaderOk(outcome.val)
    /\ (Called("zip_decompress")
           /\ ZlibHeaderOk(data) /\ read_to_end(data).tag = "Ok")
           => outcome = uncompressed_unpack(
                            block_kind, PrefixSum(read_to_end(data).val),
                            channels)
    /\ PrefixSum(DeltaFilter(data)) = data

\* C10: for a non-deep block, unpack sizes the buffer of each channel to
\* ceil(width / subsamplingX) * ceil(height / subsamplingY) samples.
C10_SampleCount ==
    (Called("unpack")
        /\ block_kind \in {"ScanLine", "Tile"}
        /\ channels # <<>>
        /\ Len(data) >= RequiredBytes(channels, block_size))
        => /\ outcome.tag = "Ok"
           /\ \A k \in 1..Len(channels) :
                 Len(outcome.val.per_channel_data[k].samples)
                     = SampleCount(channels[k], block_size)

====
